---- MODULE Spec2Model ----
(***************************************************************************)
(* Checkout / inventory reservation workflow of the store backend          *)
(* (back/base/views.py, back/base/models.py).                              *)
(*                                                                         *)
(* The database runs in autocommit: no view opens a transaction and no     *)
(* query uses select_for_update, so every ORM statement of a view is its   *)
(* own committed step.  A view is modelled statement by statement: one     *)
(* action per database statement, run by a worker that keeps the view's    *)
(* local variables (the model instances it has read) between the steps.    *)
(* Instance.save() writes every field of the instance as it was read and   *)
(* then changed locally.                                                   *)
(*                                                                         *)
(* Products carry no variants here, so the stock of a line is always       *)
(* product.stock.  Timestamps (paid_at, cancelled_at) keep only "null" or  *)
(* "set".  A statement that raises is followed in CheckoutView only.       *)
(* Prices, coupons, order numbers and Product.sales_count are not followed.*)
(***************************************************************************)
EXTENDS Integers, Sequences, FiniteSets, TLC

\* ------------------------------------------------------------------ bounds
MaxStock == 2      \* largest on-hand quantity a vendor sets
MaxQty == 1        \* largest quantity of one cart line
MaxOrders == 1     \* Order rows followed through their lifecycle
MaxDebt == 1       \* how far below zero a stock counter is followed
MaxAmount == 3     \* largest amount of money, in units of 100 cents
MaxSuffix == 2     \* random suffixes an order number is drawn from
MaxNumbered == 2   \* Order rows followed when order numbers are compared
MaxCode == 2       \* verification and reset codes that can be drawn
MaxTime == 7       \* how long the clock is followed, in units of 30 seconds

\* The rows and workers a behaviour starts with (the catalogue, the
\* customers' carts and the request workers do not change afterwards).
LifecycleProducts == {1}
LifecycleCarts == {1}
LifecycleReqs == {1}
CaptureProducts == {1}
CaptureCarts == {1}
CaptureReqs == {1, 2}
CartProducts == {1}
CartCarts == {1}
CartReqs == {1, 2}
NumbersProducts == {1}
NumbersCarts == {1, 2}
NumbersReqs == {1, 2}
SnapshotProducts == {1, 2}
SnapshotCarts == {1}
SnapshotReqs == {1, 2}
PaidProducts == {1}
PaidCarts == {1}
PaidReqs == {1}
AccountProducts == {}
AccountCarts == {}
AccountReqs == {}
CouponProducts == {}
CouponCarts == {1}
CouponReqs == {}
CheckoutProducts == {1, 2}
CheckoutCarts == {1, 2}
CheckoutReqs == {1, 2}

\* Order.STATUS_CHOICES
STATUS_CHOICES ==
  {"pending", "processing", "confirmed", "shipped", "delivered",
   "cancelled", "refunded", "failed"}

NoStock == [quantity |-> 0, reserved_quantity |-> 0]

\* Coupon.maximum_discount_amount is NULL.
NoMaximum == -1

\* A cart no coupon was applied to.
NoCoupon ==
  [discount_type |-> "", discount_value |-> 0, minimum_purchase_amount |-> 0,
   maximum_discount_amount |-> NoMaximum, is_valid |-> FALSE]

\* Cart rows with no lines priced and no coupon applied.
PlainCarts(C) ==
  [c \in C |-> [subtotal |-> 0, tax_amount |-> 0, coupon |-> NoCoupon,
                discount_amount |-> 0]]

\* User.verification_code / User.reset_code is NULL.
NoCode == 0

\* User.verification_code_created / User.reset_code_created is NULL.
NoTime == -1

\* timezone.timedelta(minutes=2.5) in User.verify_account, in units of 30
\* seconds.
VerificationLifetime == 5

\* timezone.timedelta(minutes=2.5) in User.reset_password, in units of 30
\* seconds.
ResetLifetime == 5

\* UserManager.create_user(email, username, password), called as the
\* registration and the tests call it (no is_active or is_verified given):
\* is_active and is_verified default to False, no code is outstanding.
NewUser(password) ==
  [is_active |-> FALSE, is_verified |-> FALSE, password |-> password,
   verification_code |-> NoCode, verification_code_created |-> NoTime,
   reset_code |-> NoCode, reset_code_created |-> NoTime]

\* No call has been made on the account.
NoReply == [op |-> "", code |-> NoCode, password |-> 0, result |-> FALSE]

\* An Order instance not read yet.
NoOrder ==
  [cart |-> 0, order_number |-> 0, status |-> "", paid_at |-> FALSE,
   cancelled_at |-> FALSE]

VARIABLES
  stock,        \* Stock rows: product -> [quantity, reserved_quantity]
  cartItems,    \* CartItem rows of each cart, in insertion order
  orders,       \* Order rows, indexed by creation order
  orderItems,   \* OrderItem rows: sequence of [order, product, quantity]
  payments,     \* Payment.status of each order's Payment row, "none" before
                \* the row exists
  is_active,    \* Product.is_active of each product
  carts,        \* Cart rows: subtotal and tax_amount (in cents, as the cart's
                \* lines and prices give them), the coupon applied and
                \* discount_amount
  req,          \* per worker: the view it runs, its position in it, the
                \* view's local variables and the last response
  user,         \* the User row of one account
  now,          \* timezone.now(), in units of 30 seconds
  reply         \* the last call on the account and what it returned

vars ==
  <<stock, cartItems, orders, orderItems, payments, is_active, carts, req,
    user, now, reply>>

Products == DOMAIN stock        \* Product rows, each with its Stock row
Carts == DOMAIN cartItems       \* Cart rows, one per customer
Reqs == DOMAIN req              \* workers serving requests
OrderIds == 1..Len(orders)

\* A worker that has served no request yet.
IdleReq ==
  [view |-> "", pc |-> "idle", cart |-> 0, product |-> 0, order |-> 0,
   quantity |-> 0, lines |-> <<>>, idx |-> 0, stock |-> NoStock,
   row |-> NoOrder, result |-> "none"]

\* ---------------------------------------------------------------- helpers
\* Stock.available_quantity
available_quantity(s) ==
  IF s.quantity - s.reserved_quantity > 0
    THEN s.quantity - s.reserved_quantity
    ELSE 0

\* order.items.all()
ItemsOf(o) == SelectSeq(orderItems, LAMBDA it : it.order = o)

\* total quantity of product p over a sequence of cart lines or order items
RECURSIVE QtyOf(_, _)
QtyOf(rows, p) ==
  IF rows = <<>> THEN 0
  ELSE (IF Head(rows).product = p THEN Head(rows).quantity ELSE 0)
       + QtyOf(Tail(rows), p)

\* The counters a behaviour is followed through.
InWindow(s) ==
  /\ s.quantity >= -MaxDebt
  /\ s.reserved_quantity >= -MaxDebt

\* A worker takes a request for view v.
Start(r, v) == [IdleReq EXCEPT !.view = v]

\* The view returns: its local variables are gone, the worker is free again
\* and the response (with the request it answers) stays.
Finish(r, res) ==
  [req EXCEPT ![r].pc = "idle", ![r].result = res, ![r].lines = <<>>,
              ![r].idx = 0, ![r].stock = NoStock, ![r].row = NoOrder]

\* The line a loop over req[r].lines is at.
Line(r) == req[r].lines[req[r].idx]

LastLine(r) == req[r].idx = Len(req[r].lines)

\* ---------------------------------------------------------- CheckoutView
\* Statements of CheckoutView.post that write to the database; each may
\* raise (IntegrityError, OperationalError "database is locked", ...).
WriteSteps ==
  {"create_order", "order_item", "save_stock", "payment", "delivery", "clear"}

\* Order.generate_order_number: "ORD-<day>-<random.randint(10000, 99999)>".
\* All requests are served on one day, so the random suffix stands for the
\* number.
Suffixes == 1..MaxSuffix

\* Order.objects.create(status='pending', ...); Order.save sets the number
\* generated for the new row, which has none.
NewOrder(c, n) ==
  [cart |-> c, order_number |-> n, status |-> "pending", paid_at |-> FALSE,
   cancelled_at |-> FALSE]

\* The numbers the rows of the Order table carry.
OrderNumbers == {orders[o].order_number : o \in OrderIds}

\* stock.reserved_quantity += cart_item.quantity, on the instance as read
Reserved(s, q) == [s EXCEPT !.reserved_quantity = @ + q]

\* cart = get_object_or_404(Cart, ...); if not cart.items.exists(): 400
CheckoutBegin(r, c) ==
  /\ req[r].pc = "idle"
  /\ req' = [req EXCEPT ![r] =
               IF cartItems[c] = <<>>
                 THEN [Start(r, "checkout") EXCEPT !.cart = c,
                                                   !.result = "empty"]
                 ELSE [Start(r, "checkout") EXCEPT !.cart = c,
                                                   !.pc = "fetch_lines"]]
  /\ UNCHANGED <<user, now, reply, carts, is_active, stock, cartItems, orders, orderItems, payments>>

\* for item in cart.items.all(): the queryset is evaluated here
CheckoutFetchLines(r) ==
  /\ req[r].pc = "fetch_lines"
  /\ LET rows == cartItems[req[r].cart] IN
       req' = [req EXCEPT ![r].lines = rows, ![r].idx = 1,
                          ![r].pc = IF rows = <<>> THEN "create_order"
                                    ELSE "check"]
  /\ UNCHANGED <<user, now, reply, carts, is_active, stock, cartItems, orders, orderItems, payments>>

\* A faulty variant of the stock check, which lets every line through.
CheckoutCheckLetsThrough(r) ==
  /\ req[r].pc = "check"
  /\ req' = IF LastLine(r)
              THEN [req EXCEPT ![r].pc = "create_order", ![r].lines = <<>>,
                               ![r].idx = 0]
              ELSE [req EXCEPT ![r].idx = @ + 1]
  /\ UNCHANGED <<user, now, reply, carts, is_active, stock, cartItems, orders, orderItems, payments>>

\* stock = item.product.stock; if stock.available_quantity < item.quantity:
\* 400 with 'Insufficient stock for <item.product.name>'
CheckoutCheck(r) ==
  /\ req[r].pc = "check"
  /\ req' = IF available_quantity(stock[Line(r).product]) < Line(r).quantity
              THEN [Finish(r, "insufficient") EXCEPT
                      ![r].product = Line(r).product]
              ELSE IF LastLine(r)
                THEN [req EXCEPT ![r].pc = "create_order", ![r].lines = <<>>,
                                 ![r].idx = 0]
                ELSE [req EXCEPT ![r].idx = @ + 1]
  /\ UNCHANGED <<user, now, reply, carts, is_active, stock, cartItems, orders, orderItems, payments>>

\* Order.objects.create on a table whose order_number column is not unique.
CheckoutCreateOrderAnyNumber(r) ==
  /\ req[r].pc = "create_order"
  /\ \E n \in Suffixes :
       /\ orders' = Append(orders, NewOrder(req[r].cart, n))
       /\ payments' = Append(payments, "none")
       /\ req' = [req EXCEPT ![r].order = Len(orders) + 1,
                             ![r].pc = "fetch_items"]
  /\ UNCHANGED <<user, now, reply, carts, is_active, stock, cartItems, orderItems>>

\* order = Order.objects.create(...).  The INSERT of a number another row
\* carries violates the unique constraint on order_number: IntegrityError
\* leaves the view (500) and no row is written.
CheckoutCreateOrder(r) ==
  /\ req[r].pc = "create_order"
  /\ \E n \in Suffixes :
       IF n \in OrderNumbers
         THEN /\ req' = Finish(r, "duplicate")
              /\ UNCHANGED <<orders, payments>>
         ELSE /\ orders' = Append(orders, NewOrder(req[r].cart, n))
              /\ payments' = Append(payments, "none")
              /\ req' = [req EXCEPT ![r].order = Len(orders) + 1,
                                    ![r].pc = "fetch_items"]
  /\ UNCHANGED <<user, now, reply, carts, is_active, stock, cartItems, orderItems>>

\* for cart_item in cart.items.all(): the queryset is evaluated again
CheckoutFetchItems(r) ==
  /\ req[r].pc = "fetch_items"
  /\ LET rows == cartItems[req[r].cart] IN
       req' = [req EXCEPT ![r].lines = rows, ![r].idx = 1,
                          ![r].pc = IF rows = <<>> THEN "payment"
                                    ELSE "order_item"]
  /\ UNCHANGED <<user, now, reply, carts, is_active, stock, cartItems, orders, orderItems, payments>>

\* OrderItem.objects.create(order=order, product=..., quantity=...)
CheckoutOrderItem(r) ==
  /\ req[r].pc = "order_item"
  /\ orderItems' = Append(orderItems,
                          [order |-> req[r].order,
                           product |-> Line(r).product,
                           quantity |-> Line(r).quantity])
  /\ req' = [req EXCEPT ![r].pc = "read_stock"]
  /\ UNCHANGED <<user, now, reply, carts, is_active, stock, cartItems, orders, payments>>

\* A variant of the stock read that waits for the stock row while another
\* checkout attempt is in progress.
CheckoutReadStockWaits(r) ==
  /\ req[r].pc = "read_stock"
  /\ \A r2 \in Reqs \ {r} : req[r2].pc = "idle"
  /\ req' = [req EXCEPT ![r].stock = stock[Line(r).product],
                        ![r].pc = "save_stock"]
  /\ UNCHANGED <<user, now, reply, carts, is_active, stock, cartItems, orders, orderItems, payments>>

\* stock = cart_item.product.stock
CheckoutReadStock(r) ==
  /\ req[r].pc = "read_stock"
  /\ req' = [req EXCEPT ![r].stock = stock[Line(r).product],
                        ![r].pc = "save_stock"]
  /\ UNCHANGED <<user, now, reply, carts, is_active, stock, cartItems, orders, orderItems, payments>>

\* stock.reserved_quantity += cart_item.quantity; stock.save()
CheckoutSaveStock(r) ==
  /\ req[r].pc = "save_stock"
  /\ InWindow(Reserved(req[r].stock, Line(r).quantity))
  /\ stock' = [stock EXCEPT ![Line(r).product] =
                 Reserved(req[r].stock, Line(r).quantity)]
  /\ req' = IF LastLine(r)
              THEN [req EXCEPT ![r].pc = "payment", ![r].stock = NoStock,
                               ![r].lines = <<>>, ![r].idx = 0]
              ELSE [req EXCEPT ![r].pc = "order_item", ![r].stock = NoStock,
                               ![r].idx = @ + 1]
  /\ UNCHANGED <<user, now, reply, carts, is_active, cartItems, orders, orderItems, payments>>

\* A faulty variant of the payment step, which drops the cart's lines as
\* soon as the Payment row is written instead of at the end of the view.
CheckoutPaymentDropsCart(r) ==
  /\ req[r].pc = "payment"
  /\ payments' = [payments EXCEPT ![req[r].order] = "pending"]
  /\ cartItems' = [cartItems EXCEPT ![req[r].cart] = <<>>]
  /\ req' = [req EXCEPT ![r].pc = "delivery"]
  /\ UNCHANGED <<user, now, reply, carts, is_active, stock, orders, orderItems>>

\* Payment.objects.create(order=order, status='pending', ...)
CheckoutPayment(r) ==
  /\ req[r].pc = "payment"
  /\ payments' = [payments EXCEPT ![req[r].order] = "pending"]
  /\ req' = [req EXCEPT ![r].pc = "delivery"]
  /\ UNCHANGED <<user, now, reply, carts, is_active, stock, cartItems, orders, orderItems>>

\* Delivery.objects.create(order=order, status='pending', ...)
CheckoutDelivery(r) ==
  /\ req[r].pc = "delivery"
  /\ req' = [req EXCEPT ![r].pc = "clear"]
  /\ UNCHANGED <<user, now, reply, carts, is_active, stock, cartItems, orders, orderItems, payments>>

\* cart.items.all().delete(); return Response(..., 201)
CheckoutClear(r) ==
  /\ req[r].pc = "clear"
  /\ cartItems' = [cartItems EXCEPT ![req[r].cart] = <<>>]
  /\ req' = Finish(r, "created")
  /\ UNCHANGED <<user, now, reply, carts, is_active, stock, orders, orderItems, payments>>

\* A writing statement raises: the exception leaves the view (500) and,
\* with no transaction around the view, nothing written so far is undone.
CheckoutFail(r) ==
  /\ req[r].view = "checkout"
  /\ req[r].pc \in WriteSteps
  /\ req' = Finish(r, "error")
  /\ UNCHANGED <<user, now, reply, carts, is_active, stock, cartItems, orders, orderItems, payments>>

CheckoutStep(r) ==
  \/ CheckoutFetchLines(r)
  \/ CheckoutCheck(r)
  \/ CheckoutCreateOrder(r)
  \/ CheckoutFetchItems(r)
  \/ CheckoutOrderItem(r)
  \/ CheckoutReadStock(r)
  \/ CheckoutSaveStock(r)
  \/ CheckoutPayment(r)
  \/ CheckoutDelivery(r)
  \/ CheckoutClear(r)
  \/ CheckoutFail(r)

\* ---------------------------------------------------------- shared steps
\* for item in order.items.all(): the queryset is evaluated here; the
\* loop body starts at pc `body`, and `after` follows an empty loop.
FetchItems(r, at, body, after) ==
  /\ req[r].pc = at
  /\ LET rows == ItemsOf(req[r].order) IN
       req' = IF rows = <<>>
                THEN (IF after = "idle" THEN Finish(r, "ok")
                      ELSE [req EXCEPT ![r].pc = after])
                ELSE [req EXCEPT ![r].lines = rows, ![r].idx = 1,
                                 ![r].pc = body]
  /\ UNCHANGED <<user, now, reply, carts, is_active, stock, cartItems, orders, orderItems, payments>>

\* stock = item.product.stock
ReadStock(r, at, next) ==
  /\ req[r].pc = at
  /\ req' = [req EXCEPT ![r].stock = stock[Line(r).product], ![r].pc = next]
  /\ UNCHANGED <<user, now, reply, carts, is_active, stock, cartItems, orders, orderItems, payments>>

\* stock.save() of the instance `saved`, then the next item (pc `body`) or
\* the statement after the loop (pc `after`)
SaveStock(r, at, saved, body, after) ==
  /\ req[r].pc = at
  /\ InWindow(saved)
  /\ stock' = [stock EXCEPT ![Line(r).product] = saved]
  /\ req' = IF ~LastLine(r)
              THEN [req EXCEPT ![r].idx = @ + 1, ![r].stock = NoStock,
                               ![r].pc = body]
              ELSE IF after = "idle" THEN Finish(r, "ok")
              ELSE [req EXCEPT ![r].lines = <<>>, ![r].idx = 0,
                               ![r].stock = NoStock, ![r].pc = after]
  /\ UNCHANGED <<user, now, reply, carts, is_active, cartItems, orders, orderItems, payments>>

\* ------------------------------------------------- OrderStatusUpdateView
\* stock.reserved_quantity -= item.quantity
Released(s, q) == [s EXCEPT !.reserved_quantity = @ - q]

\* order.status = new_status; order.cancelled_at = now if it is 'cancelled'
WithStatus(row, new_status) ==
  [row EXCEPT !.status = new_status,
              !.cancelled_at = (@ \/ new_status = "cancelled")]

\* order = get_object_or_404(Order, pk=pk); any status of STATUS_CHOICES is
\* accepted, whatever the current one
StatusBegin(r, o, new_status) ==
  /\ req[r].pc = "idle"
  /\ new_status \in STATUS_CHOICES
  /\ req' = [req EXCEPT ![r] =
               [Start(r, "status") EXCEPT
                  !.order = o,
                  !.row = WithStatus(orders[o], new_status),
                  !.pc = IF new_status = "cancelled" THEN "status_items"
                         ELSE "status_save"]]
  /\ UNCHANGED <<user, now, reply, carts, is_active, stock, cartItems, orders, orderItems, payments>>

StatusFetchItems(r) ==
  FetchItems(r, "status_items", "status_read", "status_save")

StatusReadStock(r) == ReadStock(r, "status_read", "status_stock")

StatusSaveStock(r) ==
  SaveStock(r, "status_stock", Released(req[r].stock, Line(r).quantity),
            "status_read", "status_save")

\* order.save()
StatusSaveOrder(r) ==
  /\ req[r].pc = "status_save"
  /\ orders' = [orders EXCEPT ![req[r].order] = req[r].row]
  /\ req' = Finish(r, "ok")
  /\ UNCHANGED <<user, now, reply, carts, is_active, stock, cartItems, orderItems, payments>>

\* ------------------------------------------------------- OrderCancelView
\* The statuses OrderCancelView.post cancels from.
Cancellable == {"pending", "processing"}

\* order = get_object_or_404(...); 400 unless pending or processing.  The
\* worker keeps the instance as it was read.
CancelBegin(r, o) ==
  /\ req[r].pc = "idle"
  /\ req' = [req EXCEPT ![r] =
               IF orders[o].status \in Cancellable
                 THEN [Start(r, "cancel") EXCEPT
                         !.order = o, !.row = orders[o], !.pc = "cancel_save"]
                 ELSE [Start(r, "cancel") EXCEPT !.order = o,
                                                 !.result = "refused"]]
  /\ UNCHANGED <<user, now, reply, carts, is_active, stock, cartItems, orders, orderItems, payments>>

\* order.status = 'cancelled'; order.cancelled_at = now; order.save()
CancelSaveOrder(r) ==
  /\ req[r].pc = "cancel_save"
  /\ orders' = [orders EXCEPT ![req[r].order] =
                  WithStatus(req[r].row, "cancelled")]
  /\ req' = [req EXCEPT ![r].pc = "cancel_items"]
  /\ UNCHANGED <<user, now, reply, carts, is_active, stock, cartItems, orderItems, payments>>

CancelFetchItems(r) == FetchItems(r, "cancel_items", "cancel_read", "idle")

CancelReadStock(r) == ReadStock(r, "cancel_read", "cancel_stock")

CancelSaveStock(r) ==
  SaveStock(r, "cancel_stock", Released(req[r].stock, Line(r).quantity),
            "cancel_read", "idle")

\* ---------------------------------------------------- PaymentProcessView
\* stock.quantity -= item.quantity; stock.reserved_quantity -= item.quantity
Captured(s, q) ==
  [s EXCEPT !.quantity = @ - q, !.reserved_quantity = @ - q]

\* order.status = 'processing'; order.paid_at = now
Paid(row) == [row EXCEPT !.status = "processing", !.paid_at = TRUE]

\* payment = get_object_or_404(Payment, order_id=order_id, ...)
PaymentBegin(r, o) ==
  /\ req[r].pc = "idle"
  /\ req' = [req EXCEPT ![r] =
               IF payments[o] # "none"
                 THEN [Start(r, "payment") EXCEPT !.order = o,
                                                  !.pc = "pay_save"]
                 ELSE [Start(r, "payment") EXCEPT !.order = o,
                                                  !.result = "not_found"]]
  /\ UNCHANGED <<user, now, reply, carts, is_active, stock, cartItems, orders, orderItems, payments>>

\* payment.status = 'completed'; payment.save()
PaymentSave(r) ==
  /\ req[r].pc = "pay_save"
  /\ payments' = [payments EXCEPT ![req[r].order] = "completed"]
  /\ req' = [req EXCEPT ![r].pc = "pay_order"]
  /\ UNCHANGED <<user, now, reply, carts, is_active, stock, cartItems, orders, orderItems>>

\* order = payment.order
PaymentReadOrder(r) ==
  /\ req[r].pc = "pay_order"
  /\ req' = [req EXCEPT ![r].row = Paid(orders[req[r].order]),
                        ![r].pc = "pay_order_save"]
  /\ UNCHANGED <<user, now, reply, carts, is_active, stock, cartItems, orders, orderItems, payments>>

\* order.save()
PaymentSaveOrder(r) ==
  /\ req[r].pc = "pay_order_save"
  /\ orders' = [orders EXCEPT ![req[r].order] = req[r].row]
  /\ req' = [req EXCEPT ![r].pc = "pay_items", ![r].row = NoOrder]
  /\ UNCHANGED <<user, now, reply, carts, is_active, stock, cartItems, orderItems, payments>>

PaymentFetchItems(r) == FetchItems(r, "pay_items", "pay_read", "idle")

PaymentReadStock(r) == ReadStock(r, "pay_read", "pay_stock")

PaymentSaveStock(r) ==
  SaveStock(r, "pay_stock", Captured(req[r].stock, Line(r).quantity),
            "pay_read", "idle")

\* A request to PaymentProcessView arrives, or one in progress runs its
\* next statement.
PaymentStep(r) ==
  \/ \E o \in OrderIds : PaymentBegin(r, o)
  \/ PaymentSave(r)
  \/ PaymentReadOrder(r)
  \/ PaymentSaveOrder(r)
  \/ PaymentFetchItems(r)
  \/ PaymentReadStock(r)
  \/ PaymentSaveStock(r)

\* ------------------------------------------------------- StockUpdateView
\* stock, created = Stock.objects.get_or_create(product=product), for a
\* PATCH with {"quantity": n}; a negative n fails MinValueValidator(0)
StockUpdateBegin(r, p, n) ==
  /\ req[r].pc = "idle"
  /\ req' = [req EXCEPT ![r] =
               IF n >= 0
                 THEN [Start(r, "stock") EXCEPT
                         !.product = p,
                         !.stock = [stock[p] EXCEPT !.quantity = n],
                         !.pc = "stock_save"]
                 ELSE [Start(r, "stock") EXCEPT !.product = p,
                                                !.result = "refused"]]
  /\ UNCHANGED <<user, now, reply, carts, is_active, stock, cartItems, orders, orderItems, payments>>

\* serializer.save()
StockUpdateSave(r) ==
  /\ req[r].pc = "stock_save"
  /\ stock' = [stock EXCEPT ![req[r].product] = req[r].stock]
  /\ req' = Finish(r, "ok")
  /\ UNCHANGED <<user, now, reply, carts, is_active, cartItems, orders, orderItems, payments>>

\* A PATCH to StockUpdateView arrives, or one in progress saves.
StockUpdateStep(r) ==
  \/ \E p \in Products, n \in -1..MaxStock : StockUpdateBegin(r, p, n)
  \/ StockUpdateSave(r)

\* --------------------------------------------------------- AddToCartView
\* The positions of cart c's rows for product p (variant none).
RowsOf(c, p) == {i \in DOMAIN cartItems[c] : cartItems[c][i].product = p}

\* The cart rows and quantities a behaviour is followed through.
CartInWindow(rows) ==
  /\ Len(rows) <= Cardinality(Products) + 1
  /\ \A i \in DOMAIN rows :
       rows[i].quantity \in -MaxDebt..MaxStock

\* AddToCartSerializer(quantity min_value=1).is_valid();
\* cart = Cart.objects.get_or_create(...); product = get_object_or_404(Product)
AddBegin(r, c, p, q) ==
  /\ req[r].pc = "idle"
  /\ req' = [req EXCEPT ![r] =
               IF q >= 1
                 THEN [Start(r, "add") EXCEPT !.cart = c, !.product = p,
                                              !.quantity = q,
                                              !.pc = "add_check"]
                 ELSE [Start(r, "add") EXCEPT !.cart = c, !.product = p,
                                              !.quantity = q,
                                              !.result = "refused"]]
  /\ UNCHANGED <<user, now, reply, carts, is_active, stock, cartItems, orders, orderItems, payments>>

\* stock = product.stock; if stock.available_quantity < quantity: 400
AddCheckStock(r) ==
  /\ req[r].pc = "add_check"
  /\ req' = IF available_quantity(stock[req[r].product]) < req[r].quantity
              THEN Finish(r, "insufficient")
              ELSE [req EXCEPT ![r].pc = "add_get"]
  /\ UNCHANGED <<user, now, reply, carts, is_active, stock, cartItems, orders, orderItems, payments>>

\* CartItem.objects.get_or_create(cart, product, variant=None, ...): the
\* SELECT.  No row: the INSERT follows; one row: it is the cart_item; several
\* rows: MultipleObjectsReturned (500).
AddGet(r) ==
  /\ req[r].pc = "add_get"
  /\ LET found == RowsOf(req[r].cart, req[r].product) IN
       req' = IF found = {}
                THEN [req EXCEPT ![r].pc = "add_create"]
                ELSE IF Cardinality(found) = 1
                  THEN LET i == CHOOSE i \in found : TRUE IN
                         [req EXCEPT ![r].idx = i,
                                     ![r].lines = <<cartItems[req[r].cart][i]>>,
                                     ![r].pc = "add_save"]
                  ELSE Finish(r, "error")
  /\ UNCHANGED <<user, now, reply, carts, is_active, stock, cartItems, orders, orderItems, payments>>

\* get_or_create's INSERT with defaults quantity=quantity.  The unique
\* constraint (cart, product, variant) does not bind rows whose variant is
\* NULL, so the INSERT succeeds even if another request inserted the same
\* product since the SELECT.
AddCreate(r) ==
  /\ req[r].pc = "add_create"
  /\ cartItems' = [cartItems EXCEPT ![req[r].cart] =
                     Append(@, [product |-> req[r].product,
                                quantity |-> req[r].quantity])]
  /\ CartInWindow(cartItems'[req[r].cart])
  /\ req' = Finish(r, "ok")
  /\ UNCHANGED <<user, now, reply, carts, is_active, stock, orders, orderItems, payments>>

\* if not created: cart_item.quantity += quantity; cart_item.save().  The
\* save is an UPDATE of the row by primary key, and an INSERT of the instance
\* if the row is gone.
AddSave(r) ==
  /\ req[r].pc = "add_save"
  /\ LET saved == [req[r].lines[1] EXCEPT !.quantity = @ + req[r].quantity]
     IN  cartItems' =
           [cartItems EXCEPT ![req[r].cart] =
              IF req[r].idx \in DOMAIN @
                THEN [@ EXCEPT ![req[r].idx] = saved]
                ELSE Append(@, saved)]
  /\ CartInWindow(cartItems'[req[r].cart])
  /\ req' = Finish(r, "ok")
  /\ UNCHANGED <<user, now, reply, carts, is_active, stock, orders, orderItems, payments>>

\* A request to AddToCartView arrives (quantity 0 included), or one in
\* progress runs its next statement.
AddToCartStep(r) ==
  \/ \E c \in Carts, p \in Products, q \in 0..MaxQty : AddBegin(r, c, p, q)
  \/ AddCheckStock(r)
  \/ AddGet(r)
  \/ AddCreate(r)
  \/ AddSave(r)

\* ---------------------------------------------------- UpdateCartItemView
\* cart_item = get_object_or_404(CartItem, pk=pk);
\* quantity = request.data.get('quantity'); if quantity: ... (0 and a
\* missing quantity change nothing and answer 200)
UpdateBegin(r, c, i, q) ==
  /\ req[r].pc = "idle"
  /\ i \in DOMAIN cartItems[c]
  /\ req' = [req EXCEPT ![r] =
               IF q # 0
                 THEN [Start(r, "update") EXCEPT
                         !.cart = c, !.idx = i, !.quantity = q,
                         !.product = cartItems[c][i].product,
                         !.lines = <<cartItems[c][i]>>,
                         !.pc = "upd_check"]
                 ELSE [Start(r, "update") EXCEPT
                         !.cart = c, !.quantity = q,
                         !.product = cartItems[c][i].product,
                         !.result = "ok"]]
  /\ UNCHANGED <<user, now, reply, carts, is_active, stock, cartItems, orders, orderItems, payments>>

\* stock = cart_item.product.stock;
\* if stock.available_quantity < quantity: 400
UpdateCheckStock(r) ==
  /\ req[r].pc = "upd_check"
  /\ req' = IF available_quantity(stock[req[r].product]) < req[r].quantity
              THEN Finish(r, "insufficient")
              ELSE [req EXCEPT ![r].pc = "upd_save"]
  /\ UNCHANGED <<user, now, reply, carts, is_active, stock, cartItems, orders, orderItems, payments>>

\* cart_item.quantity = quantity; cart_item.save()
UpdateSave(r) ==
  /\ req[r].pc = "upd_save"
  /\ cartItems' = [cartItems EXCEPT ![req[r].cart][req[r].idx] =
                     [req[r].lines[1] EXCEPT !.quantity = req[r].quantity]]
  /\ req' = Finish(r, "ok")
  /\ UNCHANGED <<user, now, reply, carts, is_active, stock, orders, orderItems, payments>>

\* A PATCH to UpdateCartItemView arrives (quantity 0 and negative included),
\* or one in progress runs its next statement.
UpdateCartItemStep(r) ==
  \/ \E c \in Carts, i \in 1..(Cardinality(Products) + 1),
        q \in -MaxDebt..MaxQty : UpdateBegin(r, c, i, q)
  \/ UpdateCheckStock(r)
  \/ UpdateSave(r)

\* ----------------------------------------------------- ProductDetailView
\* PATCH {"is_active": a} by the product's vendor (UpdateModelMixin)
ProductUpdate(p, a) ==
  /\ is_active' = [is_active EXCEPT ![p] = a]
  /\ UNCHANGED <<user, now, reply, carts, stock, cartItems, orders, orderItems, payments, req>>

\* ------------------------------------------------------- ApplyCouponView
\* Amounts of money in cents; whole multiples of 100, so that
\* subtotal * discount_value / 100 is a whole number of cents for every
\* percentage below and the two-decimal discount_amount column stores it as
\* computed.
Amounts == {100 * k : k \in 0..MaxAmount}

\* Coupon.discount_value of a percentage coupon.
Percentages == {0, 50, 100}

\* Coupon rows: a valid or invalid coupon of each discount type.
Coupons ==
  [discount_type : {"percentage"}, discount_value : Percentages,
   minimum_purchase_amount : {0, 100},
   maximum_discount_amount : {NoMaximum} \cup Amounts, is_valid : BOOLEAN]
  \cup
  [discount_type : {"fixed", "free_shipping"}, discount_value : Amounts,
   minimum_purchase_amount : {0, 100},
   maximum_discount_amount : {NoMaximum}, is_valid : BOOLEAN]

Min(a, b) == IF a <= b THEN a ELSE b

\* The discount ApplyCouponView.post computes, in cents.  The maximum is
\* applied "if coupon.maximum_discount_amount:", which is false for NULL and
\* for 0.
Discount(subtotal, coupon) ==
  IF coupon.discount_type = "percentage"
    THEN LET discount == (subtotal * coupon.discount_value) \div 100 IN
           IF coupon.maximum_discount_amount \notin {NoMaximum, 0}
             THEN Min(discount, coupon.maximum_discount_amount)
             ELSE discount
    ELSE IF coupon.discount_type = "fixed"
      THEN coupon.discount_value
      ELSE 0

\* Cart.total
CartTotal(cart) == cart.subtotal + cart.tax_amount - cart.discount_amount

\* POST code, cart_id: 400 if the coupon is not valid or the subtotal is
\* below its minimum; else cart.coupon_code = code;
\* cart.discount_amount = discount; cart.save()
ApplyCoupon(c, coupon) ==
  /\ coupon.is_valid
  /\ carts[c].subtotal >= coupon.minimum_purchase_amount
  /\ carts' = [carts EXCEPT ![c].coupon = coupon,
                            ![c].discount_amount =
                              Discount(carts[c].subtotal, coupon)]
  /\ UNCHANGED <<user, now, reply, stock, cartItems, orders, orderItems,
                 payments, is_active, req>>

\* A coupon that is not valid, or whose minimum the cart does not reach, is
\* refused (400) and the cart stays as it is.
ApplyCouponRefused(c, coupon) ==
  /\ ~coupon.is_valid \/ carts[c].subtotal < coupon.minimum_purchase_amount
  /\ UNCHANGED vars

\* ------------------------------------------------------------ accounts
\* The codes random.randint draws for a code of the given length.
Codes == 1..MaxCode

\* Passwords a user may choose.
Passwords == {1, 2}

Reply(op, code, password, result) ==
  [op |-> op, code |-> code, password |-> password, result |-> result]

\* User.generate_verification_code: a fresh code replaces the stored one,
\* its time is now, and is_verified is reset.
generate_verification_code ==
  \E code \in Codes :
    /\ user' = [user EXCEPT !.verification_code = code,
                            !.verification_code_created = now,
                            !.is_verified = FALSE]
    /\ reply' = Reply("generate_verification_code", code, 0, TRUE)
    /\ UNCHANGED <<now, carts, is_active, stock, cartItems, orders,
                   orderItems, payments, req>>

\* A variant of verify_account that leaves the stored code in place.
verify_account_keeps_code(code) ==
  /\ IF \/ user.verification_code = NoCode
        \/ user.verification_code_created = NoTime
        \/ user.verification_code # code
        \/ now > user.verification_code_created + VerificationLifetime
       THEN /\ reply' = Reply("verify_account", code, 0, FALSE)
            /\ UNCHANGED user
       ELSE /\ user' = [user EXCEPT !.is_verified = TRUE, !.is_active = TRUE]
            /\ reply' = Reply("verify_account", code, 0, TRUE)
  /\ UNCHANGED <<now, carts, is_active, stock, cartItems, orders, orderItems,
                 payments, req>>

\* A variant of verify_account without the expiry check.
verify_account_never_expires(code) ==
  /\ IF \/ user.verification_code = NoCode
        \/ user.verification_code_created = NoTime
        \/ user.verification_code # code
       THEN /\ reply' = Reply("verify_account", code, 0, FALSE)
            /\ UNCHANGED user
       ELSE /\ user' = [user EXCEPT !.is_verified = TRUE, !.is_active = TRUE,
                                    !.verification_code = NoCode,
                                    !.verification_code_created = NoTime]
            /\ reply' = Reply("verify_account", code, 0, TRUE)
  /\ UNCHANGED <<now, carts, is_active, stock, cartItems, orders, orderItems,
                 payments, req>>

\* User.verify_account(code): False if no code is stored, the code differs
\* or timezone.now() > verification_code_created + 2.5 minutes; else the
\* user is verified and activated, the code and its time are cleared and the
\* four fields are saved.
verify_account(code) ==
  /\ IF \/ user.verification_code = NoCode
        \/ user.verification_code_created = NoTime
        \/ user.verification_code # code
        \/ now > user.verification_code_created + VerificationLifetime
       THEN /\ reply' = Reply("verify_account", code, 0, FALSE)
            /\ UNCHANGED user
       ELSE /\ user' = [user EXCEPT !.is_verified = TRUE, !.is_active = TRUE,
                                    !.verification_code = NoCode,
                                    !.verification_code_created = NoTime]
            /\ reply' = Reply("verify_account", code, 0, TRUE)
  /\ UNCHANGED <<now, carts, is_active, stock, cartItems, orders, orderItems,
                 payments, req>>

\* User.generate_reset_code
generate_reset_code ==
  \E code \in Codes :
    /\ user' = [user EXCEPT !.reset_code = code, !.reset_code_created = now]
    /\ reply' = Reply("generate_reset_code", code, 0, TRUE)
    /\ UNCHANGED <<now, carts, is_active, stock, cartItems, orders,
                   orderItems, payments, req>>

\* A variant of reset_password that also activates the account.
reset_password_activates(code, new_password) ==
  /\ IF \/ user.reset_code = NoCode
        \/ user.reset_code_created = NoTime
        \/ user.reset_code # code
        \/ now > user.reset_code_created + ResetLifetime
       THEN /\ reply' = Reply("reset_password", code, new_password, FALSE)
            /\ UNCHANGED user
       ELSE /\ user' = [user EXCEPT !.password = new_password,
                                    !.is_active = TRUE,
                                    !.reset_code = NoCode,
                                    !.reset_code_created = NoTime]
            /\ reply' = Reply("reset_password", code, new_password, TRUE)
  /\ UNCHANGED <<now, carts, is_active, stock, cartItems, orders, orderItems,
                 payments, req>>

\* A variant of reset_password that leaves the reset code in place.
reset_password_keeps_code(code, new_password) ==
  /\ IF \/ user.reset_code = NoCode
        \/ user.reset_code_created = NoTime
        \/ user.reset_code # code
        \/ now > user.reset_code_created + ResetLifetime
       THEN /\ reply' = Reply("reset_password", code, new_password, FALSE)
            /\ UNCHANGED user
       ELSE /\ user' = [user EXCEPT !.password = new_password]
            /\ reply' = Reply("reset_password", code, new_password, TRUE)
  /\ UNCHANGED <<now, carts, is_active, stock, cartItems, orders, orderItems,
                 payments, req>>

\* User.reset_password(code, new_password): False if no reset code is
\* stored, the code differs or timezone.now() > reset_code_created + 2.5
\* minutes; else the password is set, the code and its time are cleared and
\* the three fields are saved.
reset_password(code, new_password) ==
  /\ IF \/ user.reset_code = NoCode
        \/ user.reset_code_created = NoTime
        \/ user.reset_code # code
        \/ now > user.reset_code_created + ResetLifetime
       THEN /\ reply' = Reply("reset_password", code, new_password, FALSE)
            /\ UNCHANGED user
       ELSE /\ user' = [user EXCEPT !.password = new_password,
                                    !.reset_code = NoCode,
                                    !.reset_code_created = NoTime]
            /\ reply' = Reply("reset_password", code, new_password, TRUE)
  /\ UNCHANGED <<now, carts, is_active, stock, cartItems, orders, orderItems,
                 payments, req>>

\* LoginSerializer.validate: authenticate(username=email, password=...)
\* returns no user for a wrong password or an inactive account, and an
\* inactive account is refused.
login(password) ==
  /\ reply' = Reply("login", NoCode, password,
                    user.password = password /\ user.is_active)
  /\ UNCHANGED <<user, now, carts, is_active, stock, cartItems, orders,
                 orderItems, payments, req>>

\* Time passes.
Tick ==
  /\ now < MaxTime
  /\ now' = now + 1
  /\ UNCHANGED <<user, reply, carts, is_active, stock, cartItems, orders,
                 orderItems, payments, req>>

\* ------------------------------------------------------- specifications
\* The products of P in ascending order of primary key.
RECURSIVE Ascending(_)
Ascending(P) ==
  IF P = {} THEN <<>>
  ELSE LET m == CHOOSE x \in P : \A y \in P : x <= y
       IN <<m>> \o Ascending(P \ {m})

\* The carts a customer can have built over the products P: at most one line
\* per product (AddToCartView adds to the existing line), each of quantity
\* at least 1 (AddToCartSerializer / UpdateCartItemView).
CartLines(P) ==
  UNION {{[i \in 1..Cardinality(S) |->
             [product |-> Ascending(S)[i], quantity |-> f[Ascending(S)[i]]]]
          : f \in [S -> 1..MaxQty]} : S \in SUBSET P}

\* The database before any order: the stock a vendor has set for each
\* product (nothing reserved), every product active, the customers' carts,
\* and idle workers.
InitOver(P, C, R) ==
  /\ stock \in [P -> [quantity : 0..MaxStock, reserved_quantity : {0}]]
  /\ cartItems \in [C -> CartLines(P)]
  /\ orders = <<>>
  /\ orderItems = <<>>
  /\ payments = <<>>
  /\ is_active = [p \in P |-> TRUE]
  /\ req = [r \in R |-> IdleReq]

\* Workers that will still create an Order row.
BeforeOrder ==
  {r \in Reqs : req[r].pc \in {"fetch_lines", "check", "create_order"}}

OrdersLeft == Len(orders) + Cardinality(BeforeOrder) < MaxOrders

\* Specifications of the shop leave the account as created.
NoAccount == user = NewUser(1) /\ now = 0 /\ reply = NoReply

\* The whole order lifecycle, one request at a time.
Init ==
  /\ InitOver(LifecycleProducts, LifecycleCarts, LifecycleReqs)
  /\ carts = PlainCarts(LifecycleCarts)
  /\ NoAccount

Next ==
  \/ \E r \in Reqs, c \in Carts : OrdersLeft /\ CheckoutBegin(r, c)
  \/ \E r \in Reqs : CheckoutStep(r)
  \/ \E r \in Reqs, o \in OrderIds : CancelBegin(r, o)
  \/ \E r \in Reqs : CancelSaveOrder(r)
  \/ \E r \in Reqs : CancelFetchItems(r)
  \/ \E r \in Reqs : CancelReadStock(r)
  \/ \E r \in Reqs : CancelSaveStock(r)
  \/ \E r \in Reqs, o \in OrderIds, s \in STATUS_CHOICES : StatusBegin(r, o, s)
  \/ \E r \in Reqs : StatusFetchItems(r)
  \/ \E r \in Reqs : StatusReadStock(r)
  \/ \E r \in Reqs : StatusSaveStock(r)
  \/ \E r \in Reqs : StatusSaveOrder(r)
  \/ \E r \in Reqs : PaymentStep(r)
  \/ \E r \in Reqs : StockUpdateStep(r)

Spec == Init /\ [][Next]_vars

\* Requests racing with a payment capture: checkouts, captures and the
\* vendor's stock updates, served by two workers.
InitCapture ==
  /\ InitOver(CaptureProducts, CaptureCarts, CaptureReqs)
  /\ carts = PlainCarts(CaptureCarts)
  /\ NoAccount

NextCapture ==
  \/ \E r \in Reqs, c \in Carts : OrdersLeft /\ CheckoutBegin(r, c)
  \/ \E r \in Reqs : CheckoutStep(r)
  \/ \E r \in Reqs : PaymentStep(r)
  \/ \E r \in Reqs : StockUpdateStep(r)

SpecCapture == InitCapture /\ [][NextCapture]_vars

\* Concurrent checkouts only: every worker serves one checkout request.
InitCheckout ==
  /\ InitOver(CheckoutProducts, CheckoutCarts, CheckoutReqs)
  /\ carts = PlainCarts(CheckoutCarts)
  /\ NoAccount

NextCheckout ==
  \/ \E r \in Reqs, c \in Carts :
       req[r].result = "none" /\ CheckoutBegin(r, c)
  \/ \E r \in Reqs : CheckoutStep(r)

SpecCheckout == InitCheckout /\ [][NextCheckout]_vars

\* The worker serving a checkout executes the next statement of the view
\* and the statement does not fail for a reason outside the view.
CheckoutRuns(r) == CheckoutStep(r) /\ req'[r].result # "error"

\* Carts that share a product.
InitOverlap ==
  /\ InitCheckout
  /\ \A c1 \in Carts : \A c2 \in Carts :
       \E p \in Products : QtyOf(cartItems[c1], p) > 0
                          /\ QtyOf(cartItems[c2], p) > 0

\* Concurrent checkouts of carts that share products, by worker processes
\* that keep running: a worker that can execute its next statement
\* eventually does.  The view takes no lock and waits for no other request,
\* so nothing but the scheduling of the worker process stands between a
\* statement and the next.
SpecCheckoutFair ==
  /\ InitOverlap
  /\ [][NextCheckout]_vars
  /\ \A r \in CheckoutReqs : WF_vars(CheckoutRuns(r))

\* A customer builds a cart with concurrent requests and then checks out,
\* while the vendor switches products on and off.  Cart requests and the
\* checkout of the cart do not overlap.
InitCart ==
  /\ InitOver(CartProducts, CartCarts, CartReqs)
  /\ carts = PlainCarts(CartCarts)
  /\ NoAccount

NoneBusy(views) ==
  \A r \in Reqs : req[r].pc = "idle" \/ req[r].view \notin views

NextCart ==
  \/ \E r \in Reqs, c \in Carts :
       OrdersLeft /\ NoneBusy({"add", "update"}) /\ CheckoutBegin(r, c)
  \/ \E r \in Reqs : CheckoutStep(r)
  \/ \E r \in Reqs : NoneBusy({"checkout"}) /\ AddToCartStep(r)
  \/ \E r \in Reqs : NoneBusy({"checkout"}) /\ UpdateCartItemStep(r)
  \/ \E p \in Products, a \in BOOLEAN : ProductUpdate(p, a)

SpecCart == InitCart /\ [][NextCart]_vars

\* Orders numbered on one day: two workers serve checkouts and the
\* customers' cancellations, which save the Order row again.
InitNumbers ==
  /\ InitOver(NumbersProducts, NumbersCarts, NumbersReqs)
  /\ carts = PlainCarts(NumbersCarts)
  /\ NoAccount

NextNumbers ==
  \/ \E r \in Reqs, c \in Carts :
       /\ Len(orders) + Cardinality(BeforeOrder) < MaxNumbered
       /\ CheckoutBegin(r, c)
  \/ \E r \in Reqs : CheckoutStep(r)
  \/ \E r \in Reqs, o \in OrderIds : CancelBegin(r, o)
  \/ \E r \in Reqs : CancelSaveOrder(r)
  \/ \E r \in Reqs : CancelFetchItems(r)
  \/ \E r \in Reqs : CancelReadStock(r)
  \/ \E r \in Reqs : CancelSaveStock(r)

SpecNumbers == InitNumbers /\ [][NextNumbers]_vars

\* Requests on one cart that overlap: every worker serves one request, a
\* checkout of the cart or an AddToCart to it.
InitSnapshot ==
  /\ InitOver(SnapshotProducts, SnapshotCarts, SnapshotReqs)
  /\ carts = PlainCarts(SnapshotCarts)
  /\ NoAccount

NextSnapshot ==
  \/ \E r \in Reqs, c \in Carts :
       req[r].result = "none" /\ CheckoutBegin(r, c)
  \/ \E r \in Reqs : CheckoutStep(r)
  \/ \E r \in Reqs : req[r].result = "none" /\ AddToCartStep(r)

SpecSnapshot == InitSnapshot /\ [][NextSnapshot]_vars

\* The requests on one order of a fully stocked product, one at a time: its
\* checkout, captures of its payment and the customer's cancellation.
InitPaid ==
  /\ InitOver(PaidProducts, PaidCarts, PaidReqs)
  /\ \A p \in PaidProducts : stock[p].quantity = MaxStock
  /\ carts = PlainCarts(PaidCarts)
  /\ NoAccount

NextPaid ==
  \/ \E r \in Reqs, c \in Carts : OrdersLeft /\ CheckoutBegin(r, c)
  \/ \E r \in Reqs : CheckoutStep(r)
  \/ \E r \in Reqs : PaymentStep(r)
  \/ \E r \in Reqs, o \in OrderIds : CancelBegin(r, o)
  \/ \E r \in Reqs : CancelSaveOrder(r)
  \/ \E r \in Reqs : CancelFetchItems(r)
  \/ \E r \in Reqs : CancelReadStock(r)
  \/ \E r \in Reqs : CancelSaveStock(r)

SpecPaid == InitPaid /\ [][NextPaid]_vars

\* One account from create_user on: codes are generated, entered (right,
\* wrong, absent or late), the password is reset and logins are attempted.
InitAccount ==
  /\ InitOver(AccountProducts, AccountCarts, AccountReqs)
  /\ carts = PlainCarts(AccountCarts)
  /\ user = NewUser(1)
  /\ now = 0
  /\ reply = NoReply

NextAccount ==
  \/ generate_verification_code
  \/ \E code \in {NoCode} \cup Codes : verify_account(code)
  \/ generate_reset_code
  \/ \E code \in {NoCode} \cup Codes, new_password \in Passwords :
       reset_password(code, new_password)
  \/ \E password \in Passwords : login(password)
  \/ Tick

SpecAccount == InitAccount /\ [][NextAccount]_vars

\* Coupons applied to carts whose lines give them any subtotal and tax.
InitCoupon ==
  /\ InitOver(CouponProducts, CouponCarts, CouponReqs)
  /\ carts \in [CouponCarts -> [subtotal : Amounts, tax_amount : {0, 100},
                                coupon : {NoCoupon}, discount_amount : {0}]]
  /\ NoAccount

NextCoupon ==
  \/ \E c \in Carts, coupon \in Coupons : ApplyCoupon(c, coupon)
  \/ \E c \in Carts, coupon \in Coupons : ApplyCouponRefused(c, coupon)

SpecCoupon == InitCoupon /\ [][NextCoupon]_vars

\* ------------------------------------------------------------ properties
\* C1 (SpecCheckout): no oversell.  For a product with A units available and
\* two checkouts of different carts that hold only that product, asking q1
\* and q2 with q1 <= A, q2 <= A and q1 + q2 > A, once both have been answered
\* exactly one was created, the other was refused for insufficient stock,
\* and the available quantity is A minus the created one's quantity.  (A is
\* the on-hand quantity: nothing is reserved before the two checkouts and
\* checkout never changes quantity.)
NoOversell ==
  \A p \in Products : \A r1 \in Reqs : \A r2 \in Reqs \ {r1} :
    LET Answered(r) ==
          req[r].pc = "idle" /\ req[r].result \in {"created", "insufficient"}
        Asked(r) ==
          IF req[r].result = "created" THEN ItemsOf(req[r].order)
          ELSE cartItems[req[r].cart]
        OnlyP(r) == \A i \in DOMAIN Asked(r) : Asked(r)[i].product = p
        A == stock[p].quantity
    IN  ( /\ Answered(r1) /\ Answered(r2)
          /\ req[r1].cart # req[r2].cart
          /\ OnlyP(r1) /\ OnlyP(r2)
          /\ QtyOf(Asked(r1), p) <= A
          /\ QtyOf(Asked(r2), p) <= A
          /\ QtyOf(Asked(r1), p) + QtyOf(Asked(r2), p) > A )
        => \E w \in {r1, r2} : \E l \in {r1, r2} \ {w} :
             /\ req[w].result = "created"
             /\ req[l].result = "insufficient"
             /\ available_quantity(stock[p]) = A - QtyOf(Asked(w), p)

\* C2 (Spec): in every reachable state every Stock row has
\* quantity - reserved_quantity >= 0 and available_quantity equal to exactly
\* that difference.
StockInvariant ==
  \A p \in Products :
    /\ stock[p].quantity - stock[p].reserved_quantity >= 0
    /\ available_quantity(stock[p])
         = stock[p].quantity - stock[p].reserved_quantity

\* C3 (SpecCheckout): atomicity.  Once a checkout has failed after creating
\* its Order row, that Order is not in the database, no OrderItem belongs to
\* it, and no product has more reserved than the items of the other orders
\* account for.
CheckoutAtomic ==
  \A r \in Reqs :
    (req[r].pc = "idle" /\ req[r].result = "error" /\ req[r].order # 0)
    => /\ req[r].order \notin OrderIds
       /\ ItemsOf(req[r].order) = <<>>
       /\ \A p \in Products :
            stock[p].reserved_quantity
              <= QtyOf(SelectSeq(orderItems,
                                 LAMBDA it : it.order # req[r].order), p)

\* C4 (SpecCheckout): a checkout that fails, at whatever step, leaves its
\* cart as it was: the only step of a checkout that changes any cart's lines
\* is the one that ends it with the order created.
FailedCheckoutKeepsCart ==
  [][\A r \in Reqs :
       (req'[r] # req[r] /\ cartItems' # cartItems)
       => (req[r].pc = "clear" /\ req'[r].result = "created")]_vars

\* A checkout has failed after its Order row, OrderItem row and stock
\* reservation were written, and its cart still holds its lines.
FailedCheckoutWithCart ==
  \E r \in Reqs :
    /\ req[r].pc = "idle"
    /\ req[r].result = "error"
    /\ req[r].order # 0
    /\ ItemsOf(req[r].order) # <<>>
    /\ cartItems[req[r].cart] # <<>>

\* C5 (Spec): in every reachable state every Stock row has
\* reserved_quantity >= 0.
ReservedNonNegative ==
  \A p \in Products : stock[p].reserved_quantity >= 0

\* C6 (SpecCheckout): no lost updates.  When the concurrent checkouts, each
\* of its own cart, have all been answered and every one succeeded, each
\* product's reserved_quantity has grown (from 0) by exactly the sum of the
\* quantities ordered of it; stated for the products whose on-hand quantity
\* covers that sum, so that no checkout was let through wrongly.
NoLostUpdate ==
  ( /\ \A r \in Reqs : req[r].pc = "idle" /\ req[r].result = "created"
    /\ \A r1 \in Reqs : \A r2 \in Reqs \ {r1} : req[r1].cart # req[r2].cart )
  => \A p \in Products :
       QtyOf(orderItems, p) <= stock[p].quantity
       => stock[p].reserved_quantity = QtyOf(orderItems, p)

\* C7 (Spec): when OrderCancelView cancels an order it read as pending, the
\* release of an item of quantity q raises the product's available_quantity
\* by exactly q, lowers reserved_quantity by q, leaves quantity unchanged,
\* and the order has cancelled_at set.
CancelRestoresStock ==
  [][\A r \in Reqs :
       ( /\ req[r].pc = "cancel_stock"
         /\ req[r].row.status = "pending"
         /\ req'[r] # req[r] )
       => LET p == Line(r).product
              q == Line(r).quantity
          IN  /\ available_quantity(stock'[p])
                   = available_quantity(stock[p]) + q
              /\ stock'[p].reserved_quantity = stock[p].reserved_quantity - q
              /\ stock'[p].quantity = stock[p].quantity
              /\ orders'[req[r].order].cancelled_at]_vars

\* C8 (Spec): cancellation only from pending or processing.  A request to
\* OrderCancelView, or to OrderStatusUpdateView with status 'cancelled', for
\* an order that is confirmed, shipped, delivered, cancelled, refunded or
\* failed is refused at once and changes neither the order nor any stock.
CancelOnlyEarly ==
  [][\A r \in Reqs : \A o \in OrderIds :
       ( /\ req[r].pc = "idle"
         /\ req'[r] # req[r]
         /\ req'[r].order = o
         /\ \/ req'[r].view = "cancel"
            \/ req'[r].view = "status" /\ req'[r].row.status = "cancelled"
         /\ orders[o].status \notin {"pending", "processing"} )
       => /\ req'[r].pc = "idle"
          /\ req'[r].result = "refused"
          /\ orders' = orders
          /\ stock' = stock]_vars

\* C9 (Spec): Order.status changes only along
\* pending -> processing -> confirmed -> shipped -> delivered, to cancelled
\* or refunded from a state before delivered, and to failed from pending or
\* processing.
StatusStateMachine ==
  [][\A o \in OrderIds :
       LET old == orders[o].status
           new == orders'[o].status
       IN  new # old =>
             \/ <<old, new>> \in {<<"pending", "processing">>,
                                  <<"processing", "confirmed">>,
                                  <<"confirmed", "shipped">>,
                                  <<"shipped", "delivered">>}
             \/ /\ new \in {"cancelled", "refunded"}
                /\ old \in {"pending", "processing", "confirmed", "shipped"}
             \/ /\ new = "failed"
                /\ old \in {"pending", "processing"}]_vars

\* C10 (SpecCapture): payment capture turns the reservation into a permanent
\* decrement.  When PaymentProcessView saves the stock of an item of
\* quantity q, the product's quantity and reserved_quantity both go down by
\* q, its available_quantity is the same before and after, and the order has
\* paid_at set.
CaptureConvertsReservation ==
  [][\A r \in Reqs :
       (req[r].pc = "pay_stock" /\ req'[r] # req[r])
       => LET p == Line(r).product
              q == Line(r).quantity
          IN  /\ stock'[p].quantity = stock[p].quantity - q
              /\ stock'[p].reserved_quantity = stock[p].reserved_quantity - q
              /\ available_quantity(stock'[p]) = available_quantity(stock[p])
              /\ orders'[req[r].order].paid_at]_vars


\* C11 (Spec): Payment.status changes only along pending -> processing,
\* processing -> completed | failed | cancelled and
\* completed -> refunded | partially_refunded (the row's creation apart),
\* and PaymentProcessView never saves 'completed' over a payment that is
\* already completed, failed, cancelled or refunded.
PaymentStateMachine ==
  [][\A o \in OrderIds :
       LET old == payments[o]
           new == payments'[o]
       IN  /\ (new # old /\ old # "none")
              => \/ <<old, new>> = <<"pending", "processing">>
                 \/ /\ old = "processing"
                    /\ new \in {"completed", "failed", "cancelled"}
                 \/ /\ old = "completed"
                    /\ new \in {"refunded", "partially_refunded"}
           /\ (\E r \in Reqs : /\ req[r].pc = "pay_save"
                               /\ req[r].order = o
                               /\ req'[r] # req[r])
              => old \notin {"completed", "failed", "cancelled", "refunded"}]_vars


\* C12 (SpecCheckout): the first line short of stock aborts the checkout.
\* A checkout refused for insufficient stock has created no Order.  For an
\* attempt that runs with no other request started: when it is refused, the
\* product named in the error is the first line of the cart whose
\* available_quantity is below its quantity, and there is no Order, no
\* OrderItem and nothing reserved; and when it gets past the check, no line
\* of the cart is short.
FirstShortLineAborts ==
  \A r \in Reqs :
    LET Alone == \A r2 \in Reqs \ {r} :
                   req[r2].pc = "idle" /\ req[r2].result = "none"
        Short(l) == available_quantity(stock[l.product]) < l.quantity
    IN  /\ (req[r].pc = "idle" /\ req[r].result = "insufficient")
           => /\ req[r].order = 0
              /\ Alone =>
                   LET cl == cartItems[req[r].cart] IN
                     /\ \E i \in DOMAIN cl :
                          /\ cl[i].product = req[r].product
                          /\ Short(cl[i])
                          /\ \A j \in 1..(i - 1) : ~Short(cl[j])
                     /\ orders = <<>>
                     /\ orderItems = <<>>
                     /\ \A p \in Products : stock[p].reserved_quantity = 0
        /\ (req[r].pc = "create_order" /\ Alone)
           => \A i \in DOMAIN cartItems[req[r].cart] :
                ~Short(cartItems[req[r].cart][i])

\* A checkout of a two-line cart has been refused at its second line, the
\* first line having enough stock.
RefusedAtSecondLine ==
  \E r \in Reqs :
    /\ req[r].pc = "idle"
    /\ req[r].result = "insufficient"
    /\ Len(cartItems[req[r].cart]) = 2
    /\ cartItems[req[r].cart][2].product = req[r].product
    /\ available_quantity(stock[cartItems[req[r].cart][1].product])
         >= cartItems[req[r].cart][1].quantity
    /\ \A r2 \in Reqs \ {r} : req[r2].result = "none"


\* C13 (SpecCart): checkout re-validates is_active.  A checkout whose cart
\* holds a product with is_active false creates no Order: the step it takes
\* where the Order would be created leaves the orders as they are and ends
\* the request without success.
CheckoutRevalidatesActive ==
  [][\A r \in Reqs :
       ( /\ req[r].pc = "create_order"
         /\ req'[r] # req[r]
         /\ \E i \in DOMAIN cartItems[req[r].cart] :
              ~is_active[cartItems[req[r].cart][i].product] )
       => /\ orders' = orders
          /\ req'[r].pc = "idle"
          /\ req'[r].result # "created"]_vars


\* C14 (SpecCart): in every reachable state a cart holds at most one
\* CartItem per product (variant none), concurrent AddToCart requests for
\* the same product included.
UniqueCartLines ==
  \A c \in Carts : \A p \in Products : Cardinality(RowsOf(c, p)) <= 1


\* C15 (SpecCart): in every reachable state every CartItem has
\* quantity >= 1, whatever quantities AddToCart and UpdateCartItem were
\* asked for, and every OrderItem has quantity >= 1.
QuantityAtLeastOne ==
  /\ \A c \in Carts : \A i \in DOMAIN cartItems[c] :
       cartItems[c][i].quantity >= 1
  /\ \A i \in DOMAIN orderItems : orderItems[i].quantity >= 1


\* C16: a fixed-amount coupon of value v applied to a cart with subtotal s
\* stores discount_amount = min(v, s), so the cart total
\* (subtotal + tax - discount) is never negative.
FixedCouponWithinSubtotal ==
  \A c \in Carts :
    carts[c].coupon.discount_type = "fixed" =>
      /\ carts[c].discount_amount =
           Min(carts[c].coupon.discount_value, carts[c].subtotal)
      /\ CartTotal(carts[c]) >= 0

\* C17: a percentage coupon of value p applied to a cart with subtotal s
\* stores s * p / 100, capped at maximum_discount_amount whenever a maximum
\* is set on the coupon, a maximum of 0 included.
PercentageCouponCapped ==
  \A c \in Carts :
    carts[c].coupon.discount_type = "percentage" =>
      LET coupon == carts[c].coupon
          uncapped == carts[c].subtotal * coupon.discount_value
      IN  100 * carts[c].discount_amount =
            IF coupon.maximum_discount_amount # NoMaximum
              THEN Min(uncapped, 100 * coupon.maximum_discount_amount)
              ELSE uncapped


\* C18 (SpecNumbers): no two Orders share an order_number, whatever suffixes
\* the checkouts of one day draw, and the order_number of an order is never
\* changed afterwards (so it never passes to another order).
OrderNumbersUnique ==
  [][/\ \A o1 \in 1..Len(orders') : \A o2 \in 1..Len(orders') :
          o1 # o2 => orders'[o1].order_number # orders'[o2].order_number
     /\ \A o \in OrderIds :
          /\ o <= Len(orders')
          /\ orders'[o].order_number = orders[o].order_number]_vars

\* C18 witness: a checkout drew the number of an existing order and was
\* refused, two orders exist, and one of them was saved again by a
\* cancellation.
DuplicateNumberRefused ==
  /\ Len(orders) = 2
  /\ \E r \in Reqs : req[r].pc = "idle" /\ req[r].result = "duplicate"
  /\ \E o \in OrderIds : orders[o].status = "cancelled"


\* C19 (SpecCheckoutFair): every checkout attempt eventually terminates, with
\* a created order or with an error response, under every interleaving of
\* concurrent checkouts of carts that share products: no attempt waits
\* indefinitely on another one.
CheckoutTerminates ==
  \A r \in CheckoutReqs :
    (req[r].pc # "idle") ~>
      (/\ req[r].pc = "idle"
       /\ req[r].result \in
            {"created", "empty", "insufficient", "duplicate", "error"})

\* C19 witness: two attempts on different carts are about to write the stock
\* row of the same product.
OverlappingAttempts ==
  \E r1 \in Reqs : \E r2 \in Reqs \ {r1} :
    /\ req[r1].pc = "save_stock" /\ req[r2].pc = "save_stock"
    /\ req[r1].cart # req[r2].cart
    /\ Line(r1).product = Line(r2).product
    /\ Len(req[r1].lines) = 2


\* C20 (SpecCheckout): after a successful checkout the originating cart has
\* zero items, and the cart is cleared only after the Order, its OrderItems
\* and the stock reservations of that attempt all exist: once checkouts have
\* answered "created", their carts are empty, their Order rows exist and
\* every product has at least the quantity of their OrderItems reserved.
ClearedAfterReserved ==
  LET Created == {r \in Reqs : req[r].pc = "idle" /\ req[r].result = "created"}
      Theirs(it) == \E r \in Created : it.order = req[r].order
  IN  \A r \in Created :
        /\ cartItems[req[r].cart] = <<>>
        /\ req[r].order \in OrderIds
        /\ \A p \in Products :
             stock[p].reserved_quantity
               >= QtyOf(SelectSeq(orderItems, Theirs), p)


\* C21 (SpecAccount): verify_account(code) called with the most recently
\* generated verification code, no later than 2.5 minutes after it was
\* generated, returns True, sets is_verified and is_active and clears the
\* stored code; with the code cleared, every later verify_account call is
\* refused, the same code included.
VerifyConsumesCode ==
  [][(reply'.op = "verify_account" /\ <<user, reply>>' # <<user, reply>>) =>
       /\ (/\ user.verification_code # NoCode
           /\ reply'.code = user.verification_code
           /\ now <= user.verification_code_created + VerificationLifetime)
          => /\ reply'.result
             /\ user'.is_verified
             /\ user'.is_active
             /\ user'.verification_code = NoCode
             /\ user'.verification_code_created = NoTime
       /\ user.verification_code = NoCode => ~reply'.result]_vars

\* C21 witness: a code was accepted 2.5 minutes after the account was
\* created.
VerifiedAtLastMoment ==
  /\ reply.op = "verify_account"
  /\ reply.result
  /\ now = VerificationLifetime
  /\ user.is_verified /\ user.is_active
  /\ user.verification_code = NoCode


\* C22 (SpecAccount): verify_account called with a wrong code, with no code
\* outstanding, or with a code generated more than 2.5 minutes earlier
\* returns False and leaves is_verified, is_active and the stored code (with
\* its time) unchanged.
VerifyRefusalChangesNothing ==
  [][(reply'.op = "verify_account" /\ <<user, reply>>' # <<user, reply>>) =>
       ((\/ user.verification_code = NoCode
         \/ reply'.code # user.verification_code
         \/ now > user.verification_code_created + VerificationLifetime)
        => (~reply'.result /\ user' = user))]_vars

\* C22 witness: the stored code was entered after its lifetime and refused;
\* it is still stored and the account is still inactive.
ExpiredCodeRefused ==
  /\ reply.op = "verify_account"
  /\ ~reply.result
  /\ reply.code # NoCode
  /\ reply.code = user.verification_code
  /\ now > user.verification_code_created + VerificationLifetime
  /\ ~user.is_verified /\ ~user.is_active


ResetOnlyWithFreshCode ==
  [][/\ user'.password # user.password
          => /\ reply'.op = "reset_password"
             /\ user.reset_code # NoCode
             /\ reply'.code = user.reset_code
             /\ now <= user.reset_code_created + ResetLifetime
     /\ (reply'.op = "reset_password" /\ <<user, reply>>' # <<user, reply>>)
          => IF reply'.result
               THEN /\ reply'.code = user.reset_code
                    /\ now <= user.reset_code_created + ResetLifetime
                    /\ user'.password = reply'.password
                    /\ user'.reset_code = NoCode
                    /\ user'.reset_code_created = NoTime
               ELSE user' = user
     /\ (/\ reply'.op = "reset_password"
         /\ <<user, reply>>' # <<user, reply>>
         /\ user.reset_code = NoCode)
          => ~reply'.result]_vars

\* C24 witness: a reset code was used, and entered again it was refused: the
\* password is the one of the first use.
ResetCodeRefusedSecondTime ==
  /\ reply.op = "reset_password"
  /\ ~reply.result
  /\ reply.code # NoCode
  /\ reply.password # user.password
  /\ user.reset_code = NoCode
  /\ user.password = 2


\* C25 (Spec): reservation conservation.  Whenever no request is in progress
\* and every order was placed completely (its checkout got as far as the
\* Payment row), each Stock's reserved_quantity equals the sum of the
\* quantities of the OrderItems for that product whose order is neither paid
\* nor cancelled.
ReservationConservation ==
  LET Open(it) ==
        /\ ~orders[it.order].paid_at
        /\ orders[it.order].status # "cancelled"
  IN  (/\ \A r \in Reqs : req[r].pc = "idle"
       /\ \A o \in OrderIds : payments[o] # "none")
      => \A p \in Products :
           stock[p].reserved_quantity = QtyOf(SelectSeq(orderItems, Open), p)


\* C26 (SpecPaid): payment capture takes effect at most once per order.  Of
\* a product stocked with MaxStock units, the on-hand quantity is never below
\* MaxStock minus the item quantities of the paid orders, however many
\* captures are requested, and no capture decrements the stock for an order
\* that was cancelled.
CaptureAtMostOnce ==
  [][/\ \A p \in Products :
          stock'[p].quantity
            >= MaxStock
               - QtyOf(SelectSeq(orderItems',
                                 LAMBDA it : orders'[it.order].paid_at), p)
     /\ \A r \in Reqs :
          (req[r].pc = "pay_stock" /\ stock' # stock)
            => ~orders[req[r].order].cancelled_at]_vars


\* C27 (Spec): an order's reservation is released at most once over the
\* order's lifetime.  Whenever no request is in progress and every order was
\* placed completely, each Stock has at least the quantity reserved that the
\* OrderItems of the orders never captured and never cancelled account for:
\* captures and cancellations have taken no more out of it than the closed
\* orders had put in.
ReleasedAtMostOnce ==
  LET NeverClosed(it) ==
        ~orders[it.order].paid_at /\ ~orders[it.order].cancelled_at
  IN  (/\ \A r \in Reqs : req[r].pc = "idle"
       /\ \A o \in OrderIds : payments[o] # "none")
      => \A p \in Products :
           stock[p].reserved_quantity
             >= QtyOf(SelectSeq(orderItems, NeverClosed), p)


CheckoutOnSnapshot ==
  [][\A r \in Reqs :
       (req[r].pc = "clear" /\ req'[r].result = "created")
       => /\ Len(cartItems[req[r].cart]) = Len(ItemsOf(req[r].order))
          /\ \A i \in DOMAIN cartItems[req[r].cart] :
               /\ cartItems[req[r].cart][i].product
                    = ItemsOf(req[r].order)[i].product
               /\ cartItems[req[r].cart][i].quantity
                    = ItemsOf(req[r].order)[i].quantity]_vars


\* C30 (SpecCart): after a successful AddToCart request the quantity of the
\* cart line it saved, the existing quantity plus the added amount, is at
\* most the available quantity of the product that the request read.  (No
\* checkout overlaps a cart request here, so the stock row is still the one
\* the request read.)
AddWithinStock ==
  [][\A r \in Reqs :
       (req[r].pc = "add_save" /\ req'[r].result = "ok")
       => req[r].lines[1].quantity + req[r].quantity
            <= available_quantity(stock[req[r].product])]_vars

====
